---------------------------- MODULE Spec2Model ----------------------------
(***************************************************************************)
(* The banking support agent graph of majlis-contact-center:               *)
(*   START -> summarize_conversation_messages -> answer_user_query         *)
(*   answer_user_query -(tools_condition)-> tools | END                    *)
(*   tools -> answer_user_query                                            *)
(* compiled with a MemorySaver checkpointer (graphbuilder.py), over the    *)
(* BankingState channels (state.py).  The language model, the summarizer   *)
(* model and the data source behind the tools are collaborators: what they *)
(* return is chosen nondeterministically from small sets.                  *)
(***************************************************************************)
EXTENDS Naturals, Sequences, FiniteSets

VARIABLES
    store,                            \* MemorySaver: thread id -> latest checkpoint
    thread_id,                        \* thread id of the invocation in flight
    status,                           \* "idle", "running", "done" or the error raised
    next_node,                        \* the node scheduled for the next superstep
    step,                             \* supersteps executed by this invocation
    recursion_limit,                  \* config["recursion_limit"] the caller invokes with
    messages,                         \* BankingState.messages (the turn log)
    customer_id,                      \* BankingState.customer_id
    user_query,                       \* BankingState.user_query
    raw_conversation_history,         \* BankingState.raw_conversation_history
    summarized_conversation_history,  \* BankingState.summarized_conversation_history
    uuid,                             \* the next fresh message identifier
    trace,                            \* nodes executed by this invocation, in order
    executed,                         \* batches of tool calls this invocation handed to a tool
    consumed,                         \* the turn log the latest ANSWER turn read
    produced,                         \* ids of the tool results of this invocation
    invocations,                      \* invocations started so far
    calls,                            \* tool calls requested so far
    futures,                          \* ToolNode: per call of the batch in flight, its outcome or None
    batch,                            \* ToolNode: the batch last started: calls, completion order, results
    runs,                             \* invocations in flight at once: thread id, node, channel values
    messages_table,                   \* the rows of the messages table, in insertion order
    request,                          \* the body of the latest POST /messages
    http_response,                    \* the HTTP response to it
    supabase_global,                  \* supabase_client._supabase: the client, or NoClient
    pc,                               \* per handler thread, its position in supabase()
    returned,                         \* per handler thread, the client its latest call returned
    created                           \* clients made by create_client so far

graph_vars == <<store, thread_id, status, next_node, step, recursion_limit, messages,
          customer_id, user_query, raw_conversation_history,
          summarized_conversation_history, uuid, trace, executed, consumed,
          produced, invocations, calls>>

batch_vars == <<futures, batch>>

conc_vars == <<runs>>

chat_vars == <<messages_table, request, http_response>>

client_vars == <<supabase_global, pc, returned, created>>

other_vars == <<batch_vars, conc_vars, chat_vars, client_vars>>

outside_batch == <<conc_vars, chat_vars, client_vars>>

outside_conc == <<batch_vars, chat_vars, client_vars>>

outside_chat == <<graph_vars, batch_vars, conc_vars, client_vars>>

outside_client == <<graph_vars, batch_vars, conc_vars, chat_vars>>

\* The one-invocation-at-a-time view of the graph, but for the store, the
\* identifiers and the count of tool calls.
single_vars == <<thread_id, status, next_node, step, recursion_limit, messages,
                 customer_id, user_query, raw_conversation_history,
                 summarized_conversation_history, trace, executed, consumed,
                 produced, invocations>>

vars == <<graph_vars, other_vars>>

(***************************************************************************)
(* Bounds of the model.                                                    *)
(***************************************************************************)
MaxWork == 4
MaxBatch == 2
MaxRaw == 1
SmallRecursionLimit == 3
MaxRows == 2

(***************************************************************************)
(* Node names and the graph's edges.                                       *)
(***************************************************************************)
START == "__start__"
END == "__end__"
SUMMARIZE == "summarize_conversation_messages"
ANSWER == "answer_user_query"
TOOLS == "tools"
Nodes == {SUMMARIZE, ANSWER, TOOLS}

\* langgraph's default config["recursion_limit"]; build_graph sets no other.
DefaultRecursionLimit == 25
RecursionLimits == {SmallRecursionLimit, DefaultRecursionLimit}

Threads == {"t1", "t2"}
\* The customer_id and user_query of an invocation's input.
Asks == {[customer_id |-> "c1", user_query |-> "balance?"],
         [customer_id |-> "c2", user_query |-> "last transactions?"]}
None == "None"

(***************************************************************************)
(* Sequence helpers.                                                       *)
(***************************************************************************)
RECURSIVE SeqsUpTo(_, _)
SeqsUpTo(S, n) ==
    IF n = 0 THEN {<<>>}
    ELSE LET shorter == SeqsUpTo(S, n - 1)
         IN  shorter \cup {Append(s, x) : s \in {t \in shorter : Len(t) = n - 1}, x \in S}

IsPrefix(s, t) == Len(s) <= Len(t) /\ SubSeq(t, 1, Len(s)) = s

Last(s) == s[Len(s)]

RECURSIVE Filter(_, _)
Filter(s, keep) ==
    IF s = <<>> THEN <<>>
    ELSE IF Head(s).id \in keep THEN <<Head(s)>> \o Filter(Tail(s), keep)
         ELSE Filter(Tail(s), keep)

Ids(s) == {s[i].id : i \in 1..Len(s)}

RECURSIVE Filter2(_, _)
Filter2(s, names) ==
    IF s = <<>> THEN <<>>
    ELSE IF Head(s).name \in names THEN <<Head(s)>> \o Filter2(Tail(s), names)
         ELSE Filter2(Tail(s), names)

IndexOf(s, id) == CHOOSE i \in 1..Len(s) : s[i].id = id

(***************************************************************************)
(* Turn records (langchain BaseMessage): id 0 stands for "no id yet".      *)
(***************************************************************************)
Msg(id, type, content, tool_calls, tool_call_id, st) ==
    [id |-> id, type |-> type, content |-> content, tool_calls |-> tool_calls,
     tool_call_id |-> tool_call_id, status |-> st]

HumanMessage(id, content) == Msg(id, "human", content, <<>>, <<>>, "")
RemoveMessage(id) == Msg(id, "remove", "", <<>>, <<>>, "")
AIMessage(id, content, tool_calls) == Msg(id, "ai", content, tool_calls, <<>>, "")
ToolMessage(id, content, tool_call_id, st) == Msg(id, "tool", content, <<>>, tool_call_id, st)

(***************************************************************************)
(* add_messages, the reducer of BankingState.messages: records without an  *)
(* id get a fresh one; a record whose id is already in the log replaces    *)
(* that entry in place, a RemoveMessage deletes it; the others are         *)
(* appended.  fresh is the first unused identifier.                        *)
(***************************************************************************)
RECURSIVE AssignIds(_, _)
AssignIds(right, fresh) ==
    IF right = <<>> THEN <<>>
    ELSE IF Head(right).id = 0
         THEN <<[Head(right) EXCEPT !.id = fresh]>> \o AssignIds(Tail(right), fresh + 1)
         ELSE <<Head(right)>> \o AssignIds(Tail(right), fresh)

RECURSIVE Merge(_, _, _)
Merge(merged, right, ids_to_remove) ==
    IF right = <<>> THEN Filter(merged, Ids(merged) \ ids_to_remove)
    ELSE LET m == Head(right)
         IN  IF m.id \in Ids(merged)
             THEN IF m.type = "remove"
                  THEN Merge(merged, Tail(right), ids_to_remove \cup {m.id})
                  ELSE Merge([merged EXCEPT ![IndexOf(merged, m.id)] = m],
                             Tail(right), ids_to_remove \ {m.id})
             ELSE Merge(Append(merged, m), Tail(right), ids_to_remove)

\* Faulty reducers: new records put in front of the log; the log overwritten.
add_messages_prepend(left, right, fresh) == AssignIds(right, fresh) \o left

add_messages_overwrite(left, right, fresh) == AssignIds(right, fresh)

add_messages(left, right, fresh) == Merge(left, AssignIds(right, fresh), {})

NumFresh(right) == Cardinality({i \in 1..Len(right) : right[i].id = 0})


(***************************************************************************)
(* Message (state.py): timestamp, sender_type and content are required;    *)
(* sender_type is one of the three literals.  A candidate item carries     *)
(* None in a field the summarizer model left out.                          *)
(***************************************************************************)
SenderTypes == {"customer", "ai", "human"}

\* Faulty schema: sender_type not checked against the literals.
MessageValidAnySender(item) ==
    item.timestamp # None /\ item.content # None

MessageValid(item) ==
    /\ item.timestamp # None
    /\ item.sender_type \in SenderTypes
    /\ item.content # None

\* SummarizedMessages: a list of Message, every item validated.
SummarizedMessagesValid(items) == \A i \in 1..Len(items) : MessageValid(items[i])

\* Raw message records as the transcript stores them (sender_type customer | agent).
RawRecords ==
    {[created_at |-> "2024-01-01T10:01:00Z", sender_type |-> "agent", content |-> "Hello"]}

RawHistories == SeqsUpTo(RawRecords, MaxRaw)

\* What the summarizer model may hand back for one input record: the record
\* normalised, invented content, the raw sender_type copied, a field left out.
CandidateItems ==
    {[timestamp |-> "2024-01-01T10:01:00Z", sender_type |-> "human", content |-> "Hello"],
     [timestamp |-> "2024-01-01T10:01:00Z", sender_type |-> "human", content |-> "Invented"],
     [timestamp |-> "2024-01-01T10:01:00Z", sender_type |-> "agent", content |-> "Hello"],
     [timestamp |-> "2024-01-01T10:01:00Z", sender_type |-> "human", content |-> None]}

Candidates(raw) == SeqsUpTo(CandidateItems, Len(raw) + 1)

(***************************************************************************)
(* The tools handed to the graph builder, and what the model may request.  *)
(***************************************************************************)
\* The catalog of the MCP server and the filter of get_mcp_tools: only the
\* tools named execute_sql and list_tables are kept.
Catalog == {"list_tables", "execute_sql", "apply_migration"}

AllowList == {"execute_sql", "list_tables"}

get_mcp_tools == {name \in Catalog : name \in AllowList}

\* Faulty wiring: the whole catalog handed to the graph builder.
tools_whole_catalog == Catalog

\* BankingAgentGraphBuilder(llm, app.state.mcp_tools): self.tools.
tools == get_mcp_tools

MutatingKeywords == {"INSERT", "UPDATE", "DELETE", "DROP", "ALTER"}

Query(verb, table, filter) == [verb |-> verb, table |-> table, filter |-> filter]

ListTablesArgs == Query("", "public", "")
AccountsByCustomer == Query("SELECT", "accounts", "customer_id")
TransactionsByAccount == Query("SELECT", "transactions", "account_id")
TransactionsByCustomer == Query("SELECT", "transactions", "customer_id")

\* The queries the model is taken to write: the three lookups of the prompt's
\* rule 8 and one data-changing and one schema-changing statement.
Queries ==
    {AccountsByCustomer, TransactionsByAccount, TransactionsByCustomer}
    \cup {Query(v, "accounts", "customer_id") : v \in {"UPDATE", "DROP"}}

Request(name, args) == [name |-> name, args |-> args]

\* The model may also name a tool of the catalog that was not bound to it.
Requests ==
    {Request("list_tables", ListTablesArgs)}
    \cup {Request("execute_sql", q) : q \in Queries}
    \cup {Request("apply_migration", Query("ALTER", "accounts", ""))}

\* One model turn: the tool-call requests of the response, none for a final answer.
ModelTurns == SeqsUpTo(Requests, MaxBatch)

ToolCalls(turn, id) ==
    [i \in 1..Len(turn) |-> [name |-> turn[i].name, args |-> turn[i].args, id |-> <<id, i>>]]

Mutating(call) == call.name = "execute_sql" /\ call.args.verb \in MutatingKeywords

(***************************************************************************)
(* The state kept per thread and its checkpoint.                           *)
(***************************************************************************)
EmptyState ==
    [messages |-> <<>>, customer_id |-> None, user_query |-> None,
     raw_conversation_history |-> <<>>, summarized_conversation_history |-> <<>>]

State(m, c, q, r, s) ==
    [messages |-> m, customer_id |-> c, user_query |-> q,
     raw_conversation_history |-> r, summarized_conversation_history |-> s]

Checkpoint(values, nxt) == [values |-> values, next |-> nxt]

NoCheckpoint == [values |-> EmptyState, next |-> None]

Saved(t) == store[t].values

\* The State Store's interface: the latest state put for the thread, or none
\* (none is written <<>>, a state s is written <<s>>).
get(st, t) == IF st[t] = NoCheckpoint THEN <<>> ELSE <<st[t].values>>

\* Faulty store: every checkpoint lands under one key.
put_one_key(st, t, checkpoint) == [st EXCEPT !["t1"] = checkpoint]

put(st, t, checkpoint) == [st EXCEPT ![t] = checkpoint]

NoBatch == [calls |-> <<>>, order |-> <<>>, results |-> <<>>]

InitBatch == futures = <<>> /\ batch = NoBatch

\* Two invocations may be in flight at once on the compiled graph.
Invocations == {"i1", "i2"}

IdleRun ==
    [thread |-> None, status |-> "idle", next |-> None, busy |-> FALSE,
     values |-> EmptyState]

InitConc == runs = [r \in Invocations |-> IdleRun]

\* The handler threads of the thread pool that run the synchronous routes.
Handlers == {"h1", "h2", "h3"}

NoRequest ==
    [conversation_id |-> None, sender_type |-> None, sender_customer_id |-> None,
     sender_agent_id |-> None, content |-> None, is_internal |-> FALSE]

NoResponse == [status |-> 0, detail |-> None]

InitChat == messages_table = <<>> /\ request = NoRequest /\ http_response = NoResponse

\* _supabase: Client | None = None.  Clients are numbered from 1 in the
\* order create_client makes them.
NoClient == 0

InitClient ==
    /\ supabase_global = NoClient
    /\ pc = [h \in Handlers |-> "idle"]
    /\ returned = [h \in Handlers |-> NoClient]
    /\ created = 0

InitOther == InitBatch /\ InitConc /\ InitChat /\ InitClient

Init ==
    /\ InitOther
    /\ store = [t \in Threads |-> NoCheckpoint]
    /\ thread_id = None
    /\ status = "idle"
    /\ next_node = None
    /\ step = 0
    /\ recursion_limit \in RecursionLimits
    /\ messages = <<>>
    /\ customer_id = None
    /\ user_query = None
    /\ raw_conversation_history = <<>>
    /\ summarized_conversation_history = <<>>
    /\ uuid = 1
    /\ trace = <<>>
    /\ executed = <<>>
    /\ consumed = <<>>
    /\ produced = {}
    /\ invocations = 0
    /\ calls = 0


\* The work done so far, bounded by MaxWork: an invocation counts as two tool
\* calls.
Work == 2 * invocations + calls

(***************************************************************************)
(* graph.invoke(input, config): the input is written to the channels of   *)
(* the thread's latest checkpoint (messages through add_messages, the      *)
(* other keys overwritten) and the START edge schedules the summarizer.    *)
(***************************************************************************)
\* The messages an input may carry: none, a new turn, the oldest entry of
\* the thread's log sent again with its id (edited, or as a removal), and a
\* removal naming an id the log does not hold.
Oldest(log) == IF log = <<>> THEN {} ELSE {log[1].id}

InputMessages(log) ==
    {<<>>, <<HumanMessage(0, "hi")>>}
    \cup {<<HumanMessage(id, "edited")>> : id \in Oldest(log)}
    \cup {<<RemoveMessage(id)>> : id \in Oldest(log) \cup {uuid}}

RemovesUnknown(log, right) ==
    \E i \in 1..Len(right) : right[i].type = "remove" /\ right[i].id \notin Ids(log)

EntryEdge == SUMMARIZE

Invoke ==
    /\ status # "running"
    /\ Work + 2 <= MaxWork
    /\ \E t \in Threads, ask \in Asks, raw \in RawHistories :
         \E input \in InputMessages(Saved(t).messages) :
            /\ ~RemovesUnknown(Saved(t).messages, input)
            /\ thread_id' = t
            /\ messages' = add_messages(Saved(t).messages, input, uuid)
            /\ uuid' = uuid + NumFresh(input)
            /\ customer_id' = ask.customer_id
            /\ user_query' = ask.user_query
            /\ raw_conversation_history' = raw
            /\ summarized_conversation_history' = Saved(t).summarized_conversation_history
            /\ next_node' = EntryEdge
            /\ store' = [store EXCEPT ![t] =
                   Checkpoint(State(messages', ask.customer_id, ask.user_query, raw,
                                    Saved(t).summarized_conversation_history), EntryEdge)]
    /\ status' = "running"
    /\ step' = 0
    /\ trace' = <<>>
    /\ executed' = <<>>
    /\ consumed' = <<>>
    /\ produced' = {}
    /\ invocations' = invocations + 1
    /\ UNCHANGED <<recursion_limit, calls>>
    /\ UNCHANGED other_vars

\* add_messages raises ValueError for a RemoveMessage whose id is not in the log:
\* the invocation fails before anything is written.
InvokeRejected ==
    /\ status # "running"
    /\ Work + 2 <= MaxWork
    /\ \E t \in Threads :
         /\ \E input \in InputMessages(Saved(t).messages) :
               RemovesUnknown(Saved(t).messages, input)
         /\ thread_id' = t
         /\ messages' = Saved(t).messages
         /\ customer_id' = Saved(t).customer_id
         /\ user_query' = Saved(t).user_query
         /\ raw_conversation_history' = Saved(t).raw_conversation_history
         /\ summarized_conversation_history' = Saved(t).summarized_conversation_history
    /\ status' = "ValueError"
    /\ next_node' = None
    /\ step' = 0
    /\ trace' = <<>>
    /\ executed' = <<>>
    /\ consumed' = <<>>
    /\ produced' = {}
    /\ invocations' = invocations + 1
    /\ UNCHANGED <<store, recursion_limit, uuid, calls>>
    /\ UNCHANGED other_vars

Running(node) == status = "running" /\ next_node = node /\ step < recursion_limit

\* Faulty checkpointing: the node boundary writes nothing.
SaveNothing(nxt) == store' = store

Save(nxt) ==
    store' = put(store, thread_id,
        Checkpoint(State(messages', customer_id', user_query',
                         raw_conversation_history', summarized_conversation_history'),
                   nxt))

(***************************************************************************)
(* summarize_conversation_messages: the summarizer model's candidate is    *)
(* parsed as SummarizedMessages and stored only when it validates and has  *)
(* one item per raw record, each traceable to the input; otherwise the     *)
(* node raises and nothing is written.                                     *)
(***************************************************************************)
Traceable(raw, item) == \E i \in 1..Len(raw) : raw[i].content = item.content

Accepted(raw, candidate) ==
    /\ SummarizedMessagesValid(candidate)
    /\ Len(candidate) = Len(raw)
    /\ \A i \in 1..Len(candidate) : Traceable(raw, candidate[i])

SummarizeEdge == ANSWER

summarize_conversation_messages ==
    /\ Running(SUMMARIZE)
    /\ \E candidate \in Candidates(raw_conversation_history) :
         /\ Accepted(raw_conversation_history, candidate)
         /\ summarized_conversation_history' = candidate
    /\ next_node' = SummarizeEdge
    /\ step' = step + 1
    /\ trace' = Append(trace, SUMMARIZE)
    /\ UNCHANGED <<thread_id, status, recursion_limit, messages, customer_id,
                   user_query, raw_conversation_history, uuid, executed, consumed,
                   produced, invocations, calls>>
    /\ Save(SummarizeEdge)
    /\ UNCHANGED other_vars

summarize_rejected ==
    /\ Running(SUMMARIZE)
    /\ \E candidate \in Candidates(raw_conversation_history) :
         ~Accepted(raw_conversation_history, candidate)
    /\ status' = "ValidationError"
    /\ UNCHANGED <<store, thread_id, next_node, step, recursion_limit, messages,
                   customer_id, user_query, raw_conversation_history,
                   summarized_conversation_history, uuid, trace, executed, consumed,
                   produced, invocations, calls>>
    /\ UNCHANGED other_vars


(***************************************************************************)
(* tools_condition: "tools" when the last message of the state carries     *)
(* tool calls, END otherwise; the path map of add_conditional_edges turns  *)
(* the result into the next node.                                          *)
(***************************************************************************)
\* Faulty routers: always END; routing on the length of the log.
tools_condition_always_end(state) == END

tools_condition_by_length(state) ==
    IF Len(state.messages) > 2 THEN END ELSE "tools"

tools_condition(state) ==
    IF state.messages # <<>> /\ Len(state.messages[Len(state.messages)].tool_calls) > 0
    THEN "tools"
    ELSE END

PathMap(result) == IF result = "tools" THEN TOOLS ELSE END

(***************************************************************************)
(* answer_user_query: one model turn over the query, the summary and the   *)
(* turn log; the response is appended to messages.                         *)
(***************************************************************************)
\* The node, with the turns the model may take and the work allowed.
ModelTurn(turns, budget) ==
    /\ Running(ANSWER)
    /\ \E turn \in turns :
         /\ Work + Len(turn) <= budget
         /\ LET response == AIMessage(0, IF turn = <<>> THEN "answer" ELSE "",
                                      ToolCalls(turn, uuid))
            IN  messages' = add_messages(messages, <<response>>, uuid)
         /\ calls' = calls + Len(turn)
    /\ uuid' = uuid + 1
    /\ consumed' = messages
    /\ UNCHANGED <<thread_id, recursion_limit, customer_id, user_query,
                   raw_conversation_history, summarized_conversation_history,
                   executed, produced, invocations>>
    /\ next_node' = PathMap(tools_condition(
           State(messages', customer_id, user_query, raw_conversation_history,
                 summarized_conversation_history)))
    /\ status' = IF next_node' = END THEN "done" ELSE "running"
    /\ step' = step + 1
    /\ trace' = Append(trace, ANSWER)
    /\ Save(next_node')
    /\ UNCHANGED other_vars

answer_user_query == ModelTurn(ModelTurns, MaxWork)

(***************************************************************************)
(* ToolNode(self.tools, handle_tool_errors=True): every tool call of the   *)
(* last AI message is run, in parallel; a call naming no tool of the node  *)
(* is answered with an error result without running anything; a tool that  *)
(* raises becomes an error result when handle_tool_errors is set, else the *)
(* exception leaves the node.  The results are returned in request order;  *)
(* executed records the batch, the order of execution inside it is free.   *)
(***************************************************************************)
\* Faulty settings: tool errors not handled; tools wired to END or back to
\* the summarizer.
handle_tool_errors_off == FALSE

handle_tool_errors == TRUE

ToolsEdgeToEnd == END

ToolsEdgeToSummarize == SUMMARIZE

ToolsEdge == ANSWER

Outcomes == {"rows", "raise"}

\* Faulty node: its update also empties the summary.
ToolNodeFrameDropsSummary ==
    /\ summarized_conversation_history' = <<>>
    /\ UNCHANGED <<customer_id, user_query, raw_conversation_history>>

\* The node's update has the messages key only: the channels without a
\* reducer keep their value.
ToolNodeFrame ==
    UNCHANGED <<customer_id, user_query, raw_conversation_history,
                summarized_conversation_history>>

RunTool(call, outcome) ==
    IF call.name \notin tools
    THEN ToolMessage(0, "Error: not a valid tool", call.id, "error")
    ELSE IF outcome = "raise"
         THEN ToolMessage(0, "Error: tool failed", call.id, "error")
         ELSE ToolMessage(0, "rows", call.id, "success")

tool_node ==
    /\ Running(TOOLS)
    /\ ToolNodeFrame
    /\ LET tool_calls == messages[Len(messages)].tool_calls
           n == Len(tool_calls)
       IN  \E outcome \in [1..n -> Outcomes] :
             LET outputs == [i \in 1..n |-> RunTool(tool_calls[i], outcome[i])]
                 raised == \E i \in 1..n :
                               tool_calls[i].name \in tools /\ outcome[i] = "raise"
                 ran == [i \in 1..n |->
                            [name |-> tool_calls[i].name, args |-> tool_calls[i].args,
                             id |-> tool_calls[i].id, outcome |-> outcome[i]]]
             IN  /\ executed' = Append(executed, Filter2(ran, tools))
                 /\ IF raised /\ ~handle_tool_errors
                    THEN /\ status' = "ToolException"
                         /\ UNCHANGED <<store, messages, uuid, produced, next_node,
                                        step, trace>>
                    ELSE /\ messages' = add_messages(messages, outputs, uuid)
                         /\ uuid' = uuid + n
                         /\ produced' = produced \cup (uuid..(uuid + n - 1))
                         /\ next_node' = ToolsEdge
                         /\ status' = IF next_node' = END THEN "done" ELSE "running"
                         /\ step' = step + 1
                         /\ trace' = Append(trace, TOOLS)
                         /\ Save(next_node')
    /\ UNCHANGED <<thread_id, recursion_limit, consumed, invocations, calls>>
    /\ UNCHANGED other_vars

(***************************************************************************)
(* The Pregel loop stops an invocation that still has a node to run after  *)
(* recursion_limit supersteps: GraphRecursionError.                        *)
(***************************************************************************)
OutOfSteps ==
    /\ status = "running"
    /\ next_node \in Nodes
    /\ step >= recursion_limit
    /\ status' = "GraphRecursionError"
    /\ UNCHANGED <<store, thread_id, next_node, step, recursion_limit, messages,
                   customer_id, user_query, raw_conversation_history,
                   summarized_conversation_history, uuid, trace, executed, consumed,
                   produced, invocations, calls>>
    /\ UNCHANGED other_vars

Next ==
    \/ Invoke
    \/ InvokeRejected
    \/ summarize_conversation_messages
    \/ summarize_rejected
    \/ answer_user_query
    \/ tool_node
    \/ OutOfSteps

Spec == Init /\ [][Next]_vars

(***************************************************************************)
(* ToolNode, one call at a time.  The calls of the last AI message are     *)
(* started together, complete in any order, and the node returns once      *)
(* every call has completed, with the results in request order.            *)
(***************************************************************************)
\* Faulty join: the node returns as soon as one call has completed.
JoinedAtFirst(f) == \E i \in 1..Len(f) : f[i] # None

Joined(f) == \A i \in 1..Len(f) : f[i] # None

\* The results of the completed calls from the i-th on, in request order.
RECURSIVE Outputs(_, _, _)
Outputs(tool_calls, f, i) ==
    IF i > Len(tool_calls)
    THEN <<>>
    ELSE (IF f[i] # None THEN <<RunTool(tool_calls[i], f[i])>> ELSE <<>>)
         \o Outputs(tool_calls, f, i + 1)

tool_start ==
    /\ Running(TOOLS)
    /\ futures = <<>>
    /\ futures' = [i \in 1..Len(Last(messages).tool_calls) |-> None]
    /\ batch' = [calls |-> Last(messages).tool_calls, order |-> <<>>, results |-> <<>>]
    /\ UNCHANGED <<graph_vars, outside_batch>>

tool_complete ==
    /\ Running(TOOLS)
    /\ \E i \in 1..Len(futures) :
         /\ futures[i] = None
         /\ \E outcome \in IF Last(messages).tool_calls[i].name \in tools
                            THEN Outcomes ELSE {"invalid"} :
               futures' = [futures EXCEPT ![i] = outcome]
         /\ batch' = [batch EXCEPT !.order = Append(@, i)]
    /\ UNCHANGED <<graph_vars, outside_batch>>

tool_join ==
    /\ Running(TOOLS)
    /\ futures # <<>>
    /\ Joined(futures)
    /\ ToolNodeFrame
    /\ LET tool_calls == Last(messages).tool_calls
           outputs == Outputs(tool_calls, futures, 1)
           n == Len(outputs)
           raised == \E i \in 1..Len(tool_calls) :
                         tool_calls[i].name \in tools /\ futures[i] = "raise"
           ran == [i \in 1..Len(tool_calls) |->
                      [name |-> tool_calls[i].name, args |-> tool_calls[i].args,
                       id |-> tool_calls[i].id, outcome |-> futures[i]]]
       IN  /\ executed' = Append(executed, Filter2(ran, tools))
           /\ batch' = [batch EXCEPT !.results = [i \in 1..n |-> outputs[i].tool_call_id]]
           /\ IF raised /\ ~handle_tool_errors
              THEN /\ status' = "ToolException"
                   /\ UNCHANGED <<store, messages, uuid, produced, next_node, step, trace>>
              ELSE /\ messages' = add_messages(messages, outputs, uuid)
                   /\ uuid' = uuid + n
                   /\ produced' = produced \cup (uuid..(uuid + n - 1))
                   /\ next_node' = ToolsEdge
                   /\ status' = IF next_node' = END THEN "done" ELSE "running"
                   /\ step' = step + 1
                   /\ trace' = Append(trace, TOOLS)
                   /\ Save(next_node')
    /\ futures' = <<>>
    /\ UNCHANGED <<thread_id, recursion_limit, consumed, invocations, calls,
                   outside_batch>>

NextBatch ==
    \/ Invoke
    \/ InvokeRejected
    \/ summarize_conversation_messages
    \/ summarize_rejected
    \/ answer_user_query
    \/ tool_start
    \/ tool_complete
    \/ tool_join

\* Every invocation runs under the default recursion limit, which the work
\* bound keeps out of reach.
InitDefaultLimit == Init /\ recursion_limit = DefaultRecursionLimit

SpecBatch == InitDefaultLimit /\ [][NextBatch]_vars

(***************************************************************************)
(* Scenario 2: the model issues list_tables, then execute_sql on accounts, *)
(* then execute_sql on transactions, and then answers.  How the model      *)
(* groups the three calls into turns is its own choice: the next turn      *)
(* carries one or more of the calls still to issue, in order.              *)
(***************************************************************************)
Scenario2 ==
    <<Request("list_tables", ListTablesArgs),
      Request("execute_sql", AccountsByCustomer),
      Request("execute_sql", TransactionsByAccount)>>

ScenarioTurns ==
    IF calls >= Len(Scenario2)
    THEN {<<>>}
    ELSE {SubSeq(Scenario2, calls + 1, calls + k) :
             k \in 1..(IF Len(Scenario2) - calls < MaxBatch
                       THEN Len(Scenario2) - calls ELSE MaxBatch)}

\* The work allowed: the invocations started and the calls of the scenario.
ScenarioWork == 2 * invocations + Len(Scenario2)

scenario_answer == ModelTurn(ScenarioTurns, ScenarioWork)

NextScenario ==
    \/ Invoke
    \/ InvokeRejected
    \/ summarize_conversation_messages
    \/ summarize_rejected
    \/ scenario_answer
    \/ tool_node
    \/ OutOfSteps

SpecScenario == Init /\ [][NextScenario]_vars

(***************************************************************************)
(* Invocations in flight at once on the one compiled graph and its one     *)
(* MemorySaver.  Each invocation holds its own channel values, loaded from *)
(* the checkpoint of its thread id when it starts; a node reads and        *)
(* updates these, and the loop puts a checkpoint under the invocation's    *)
(* thread id when the node has returned.  Nothing in build_graph or in     *)
(* MemorySaver makes one invocation wait for another.  A fresh message id   *)
(* is an id the invocation's log does not hold.                            *)
(***************************************************************************)
ConcInputs == {<<HumanMessage(0, "hi")>>}

FreshFor(log) ==
    IF log = <<>> THEN 1 ELSE 1 + CHOOSE m \in Ids(log) : \A x \in Ids(log) : x <= m

ConcTurns == SeqsUpTo({Request("list_tables", ListTablesArgs)}, MaxBatch)

Written(r, values, nxt) ==
    /\ runs' = [runs EXCEPT ![r] =
           [thread |-> runs[r].thread,
            status |-> IF nxt = END THEN "done" ELSE "running",
            next |-> nxt, busy |-> FALSE, values |-> values]]
    /\ store' = put(store, runs[r].thread, Checkpoint(values, nxt))

Start(r) ==
    /\ runs[r].status = "idle"
    /\ \E t \in Threads, ask \in Asks, raw \in RawHistories, input \in ConcInputs :
         LET values == State(add_messages(Saved(t).messages, input,
                                          FreshFor(Saved(t).messages)),
                             ask.customer_id, ask.user_query, raw,
                             Saved(t).summarized_conversation_history)
         IN  /\ runs' = [runs EXCEPT ![r] =
                    [thread |-> t, status |-> "running", next |-> EntryEdge,
                     busy |-> FALSE, values |-> values]]
             /\ store' = put(store, t, Checkpoint(values, EntryEdge))
    /\ UNCHANGED <<single_vars, uuid, calls, outside_conc>>

\* A node of the invocation starts executing.
Begin(r) ==
    /\ runs[r].status = "running"
    /\ ~runs[r].busy
    /\ runs' = [runs EXCEPT ![r].busy = TRUE]
    /\ UNCHANGED <<graph_vars, outside_conc>>

\* The node returns: its update is applied and the checkpoint is put.
Finish(r) ==
    /\ runs[r].busy
    /\ LET v == runs[r].values
       IN  \/ /\ runs[r].next = SUMMARIZE
              /\ \E candidate \in Candidates(v.raw_conversation_history) :
                   /\ Accepted(v.raw_conversation_history, candidate)
                   /\ Written(r, [v EXCEPT !.summarized_conversation_history = candidate],
                              SummarizeEdge)
              /\ UNCHANGED calls
           \/ /\ runs[r].next = ANSWER
              /\ \E turn \in ConcTurns :
                   /\ calls + Len(turn) <= MaxBatch
                   /\ calls' = calls + Len(turn)
                   /\ LET response == AIMessage(0, IF turn = <<>> THEN "answer" ELSE "",
                                                ToolCalls(turn, FreshFor(v.messages)))
                          log == add_messages(v.messages, <<response>>,
                                              FreshFor(v.messages))
                      IN  Written(r, [v EXCEPT !.messages = log],
                                  PathMap(tools_condition([v EXCEPT !.messages = log])))
           \/ /\ runs[r].next = TOOLS
              /\ LET tool_calls == Last(v.messages).tool_calls
                     n == Len(tool_calls)
                 IN  \E outcome \in [1..n -> Outcomes] :
                       /\ Written(r, [v EXCEPT !.messages =
                                         add_messages(v.messages,
                                             [i \in 1..n |-> RunTool(tool_calls[i], outcome[i])],
                                             FreshFor(v.messages))],
                                  ToolsEdge)
              /\ UNCHANGED calls
    /\ UNCHANGED <<single_vars, uuid, outside_conc>>

NextConcurrent == \E r \in Invocations : Start(r) \/ Begin(r) \/ Finish(r)

SpecConcurrent == InitDefaultLimit /\ [][NextConcurrent]_vars


(***************************************************************************)
(* POST /messages (routes/chat.py): FastAPI validates the body against     *)
(* SendMessageRequest and answers 422 when it does not validate; else      *)
(* send_message checks the sender fields, raises HTTP 400 when they do not  *)
(* agree with sender_type, and otherwise inserts the payload; an insert    *)
(* that reports an error or returns no data is answered with 500.          *)
(***************************************************************************)
Bodies ==
    [conversation_id : {"conv1"},
     sender_type : {"customer", "agent"},
     sender_customer_id : {None, "", "c1"},
     sender_agent_id : {None, "", "a1"},
     content : {"", "hi"},
     is_internal : BOOLEAN]

\* content: str = Field(min_length=1); the other fields of Bodies have the
\* declared types.
SendMessageRequest(body) == body.content # ""

\* Faulty test: only a missing id counts as absent.
FalsyOnlyNone(x) == x = None

\* Python's "not x" for an Optional[str].
Falsy(x) == x = None \/ x = ""

Rejection(body) ==
    IF body.sender_type = "customer"
    THEN IF Falsy(body.sender_customer_id) \/ body.sender_agent_id # None
         THEN "customer message requires sender_customer_id only"
         ELSE IF body.is_internal
              THEN "customers cannot send internal messages"
              ELSE None
    ELSE IF Falsy(body.sender_agent_id) \/ body.sender_customer_id # None
         THEN "agent message requires sender_agent_id only"
         ELSE None

payload(body) ==
    [conversation_id |-> body.conversation_id, sender_type |-> body.sender_type,
     sender_customer_id |-> body.sender_customer_id,
     sender_agent_id |-> body.sender_agent_id, content |-> body.content,
     is_internal |-> body.is_internal]

\* What the insert comes back with: the row; an error, nothing stored; the
\* row stored but no data returned.
InsertOutcomes == {"row", "error", "empty"}

validation_error ==
    /\ \E body \in Bodies :
         /\ ~SendMessageRequest(body)
         /\ request' = body
    /\ http_response' = [status |-> 422, detail |-> "validation error"]
    /\ UNCHANGED <<messages_table, outside_chat>>

send_message ==
    /\ \E body \in Bodies :
         /\ SendMessageRequest(body)
         /\ request' = body
         /\ IF Rejection(body) # None
            THEN /\ http_response' = [status |-> 400, detail |-> Rejection(body)]
                 /\ UNCHANGED messages_table
            ELSE \E outcome \in InsertOutcomes :
                    /\ outcome # "error" => Len(messages_table) < MaxRows
                    /\ messages_table' =
                          IF outcome = "error" THEN messages_table
                          ELSE Append(messages_table, payload(body))
                    /\ http_response' =
                          IF outcome = "row" THEN [status |-> 200, detail |-> None]
                          ELSE [status |-> 500, detail |-> "Failed to send message"]
    /\ UNCHANGED outside_chat

NextChat == validation_error \/ send_message

SpecChat == Init /\ [][NextChat]_vars

(***************************************************************************)
(* supabase() (infra/supabase_client.py), called by the synchronous route  *)
(* handlers, which the server runs in the threads of a pool.  The function *)
(* tests the module global, makes the client when the test found None,     *)
(* stores it in the global and returns the global; it takes no lock, so    *)
(* another thread may run between any two of these steps.                  *)
(***************************************************************************)
supabase_call(h) ==
    /\ pc[h] = "idle"
    /\ pc' = [pc EXCEPT ![h] = "test"]
    /\ UNCHANGED <<supabase_global, returned, created, outside_client>>

\* if _supabase is None:
supabase_test(h) ==
    /\ pc[h] = "test"
    /\ pc' = [pc EXCEPT ![h] = IF supabase_global = NoClient THEN "create" ELSE "return"]
    /\ UNCHANGED <<supabase_global, returned, created, outside_client>>

\* _supabase = create_client(settings.supabase_url, service_key)
create_client(h) ==
    /\ pc[h] = "create"
    /\ created' = created + 1
    /\ supabase_global' = created + 1
    /\ pc' = [pc EXCEPT ![h] = "return"]
    /\ UNCHANGED <<returned, outside_client>>

\* return _supabase
supabase_return(h) ==
    /\ pc[h] = "return"
    /\ returned' = [returned EXCEPT ![h] = supabase_global]
    /\ pc' = [pc EXCEPT ![h] = "idle"]
    /\ UNCHANGED <<supabase_global, created, outside_client>>

NextClient ==
    \E h \in Handlers :
        \/ supabase_call(h)
        \/ supabase_test(h)
        \/ create_client(h)
        \/ supabase_return(h)

SpecClient == Init /\ [][NextClient]_vars

(***************************************************************************)
(* Properties.                                                             *)
(***************************************************************************)
Ran(node) == trace # <<>> /\ Last(trace) = node

RequestsTools(m) == m.type = "ai" /\ Len(m.tool_calls) >= 1

\* C1: after every execution of answer_user_query the next node is TOOLS when
\* the model output just appended carries one or more tool calls and END when
\* it carries none, whatever the other state fields and the earlier round
\* trips are.
C1_RoutingByToolCalls ==
    Ran(ANSWER) =>
        /\ messages # <<>>
        /\ Last(messages).type = "ai"
        /\ Len(Last(messages).tool_calls) >= 1 => next_node = TOOLS
        /\ Len(Last(messages).tool_calls) = 0 => next_node = END /\ status = "done"

\* C1 witness: a second ANSWER turn, after one round trip, routed to TOOLS.
C1_Witness ==
    /\ Len(trace) = 4
    /\ Ran(ANSWER)
    /\ RequestsTools(Last(messages))
    /\ next_node = TOOLS

\* C2: the node that runs after TOOLS is always answer_user_query: TOOLS
\* never ends the invocation and is never followed by another node.
C2_ToolsOnlyToAnswer ==
    /\ Ran(TOOLS) => next_node = ANSWER /\ status # "done"
    /\ \A i \in 1..(Len(trace) - 1) : trace[i] = TOOLS => trace[i + 1] = ANSWER

\* C2 witness: TOOLS has run and answer_user_query ran right after it.
C2_Witness ==
    \E i \in 1..(Len(trace) - 1) : trace[i] = TOOLS /\ trace[i + 1] = ANSWER

\* C3: in one invocation summarize_conversation_messages is the first node to
\* run and it runs exactly once: no ANSWER or TOOLS step comes before it and
\* no later step of the ANSWER/TOOLS cycle is the summarizer again.
C3_SummarizeOnce ==
    /\ trace # <<>> =>
          /\ trace[1] = SUMMARIZE
          /\ \A i \in 2..Len(trace) : trace[i] # SUMMARIZE
    /\ (status \in {"running", "done"} /\ next_node # SUMMARIZE) => trace # <<>>

\* C3 witness: an invocation that went twice round the ANSWER/TOOLS cycle.
C3_Witness ==
    /\ status = "done"
    /\ trace = <<SUMMARIZE, ANSWER, TOOLS, ANSWER, TOOLS, ANSWER>>

\* C4: an invocation that reaches END ran answer_user_query last, and the
\* turn log that final turn read holds every tool result the invocation
\* produced.
C4_FinalAnswerSeesToolResults ==
    status = "done" =>
        /\ Ran(ANSWER)
        /\ \A id \in produced :
              \E i \in 1..Len(consumed) : consumed[i].id = id /\ consumed[i].type = "tool"

\* C4 witness: END reached after tool results of two separate round trips.
C4_Witness ==
    /\ status = "done"
    /\ Len(executed) = 2
    /\ Cardinality(produced) = 2


FinalTurn == Ran(ANSWER) /\ ~RequestsTools(Last(messages))

\* C5 as stated: an invocation ends exactly at an ANSWER turn without tool
\* calls and nothing bounds the ANSWER/TOOLS round trips, so a run whose
\* ANSWER turns request tools is never stopped.
C5_NoRoundTripBound ==
    /\ status = "done" <=> FinalTurn
    /\ status # "GraphRecursionError"

\* C5 amended: END is reached exactly at the first ANSWER turn without tool
\* calls (every earlier turn requested tools); build_graph adds no bound of
\* its own, but a run that still has a node to run after recursion_limit
\* supersteps is stopped with GraphRecursionError and never reaches END.
C5_EndAtFirstToolFreeTurnWithinLimit ==
    /\ status = "done" <=> FinalTurn
    /\ \A i \in 1..(Len(trace) - 1) : trace[i] = ANSWER => trace[i + 1] = TOOLS
    /\ status = "running" => next_node \in Nodes /\ step = Len(trace)
    /\ status = "GraphRecursionError" =>
          /\ Len(trace) = recursion_limit
          /\ next_node \in {ANSWER, TOOLS}
          /\ ~FinalTurn

\* C5 witness: every ANSWER turn requested tools and the run was stopped at
\* the recursion limit.
C5_Witness ==
    /\ status = "GraphRecursionError"
    /\ Len(trace) = recursion_limit
    /\ \E i \in 1..Len(trace) : trace[i] = TOOLS

ErrorResultOf(m, call) ==
    m.type = "tool" /\ m.tool_call_id = call.id /\ m.status = "error"

\* C6: a tool that fails does not end the invocation with its exception: the
\* failure is in the turn log as an error result, the node after TOOLS is
\* answer_user_query, and the ANSWER turn that follows reads that result.
C6_ToolErrorsReachAnswer ==
    /\ status # "ToolException"
    /\ Ran(TOOLS) => next_node = ANSWER
    /\ \A k \in 1..Len(executed) : \A i \in 1..Len(executed[k]) :
          executed[k][i].outcome = "raise" =>
              /\ \E j \in 1..Len(messages) :
                    ErrorResultOf(messages[j], executed[k][i]) /\ messages[j].id \in produced
              /\ (k < Len(executed) \/ Ran(ANSWER)) =>
                    \E j \in 1..Len(consumed) : ErrorResultOf(consumed[j], executed[k][i])

\* C6 witness: a tool failed and an ANSWER turn ran after it.
C6_Witness ==
    /\ Ran(ANSWER)
    /\ \E k \in 1..Len(executed) : \E i \in 1..Len(executed[k]) :
          executed[k][i].outcome = "raise"

IdSeq(s) == [i \in 1..Len(s) |-> s[i].id]

\* C7 as stated: whatever records reach the reducer, the earlier turn log of a
\* thread is a prefix of the later one, across node transitions and across
\* invocations that reuse the thread id.
C7_AppendOnly ==
    [][\A t \in Threads :
          IsPrefix(store[t].values.messages, store'[t].values.messages)]_vars

\* C7 amended: every node transition appends (the response and the tool
\* results get fresh ids), so inside an invocation the earlier log is a
\* prefix of the later; the input of a later invocation on the thread is
\* merged by id, which may replace or remove an entry, and the entries that
\* stay keep their relative order.
C7_AppendOnlyForFreshIds ==
    [][\A t \in Threads :
          LET old == store[t].values.messages
              new == store'[t].values.messages
          IN  /\ status = "running" => IsPrefix(old, new)
              /\ IdSeq(Filter(old, Ids(new))) = IdSeq(Filter(new, Ids(old)))]_vars

\* C7 witness: a second invocation on the thread replaced an entry of the log
\* in place and its nodes then appended to the log.
C7_Witness ==
    /\ status = "done"
    /\ Len(messages) >= 2
    /\ messages[1].content = "edited"
    /\ Last(messages).type = "ai"

\* C8: once the summarizer has run, the stored summary has one item per raw
\* record and every item has a timestamp, a sender_type among customer, ai,
\* human and a content; a rejected candidate leaves the stored summary as it
\* was, and no stored summary ever holds an invalid item.
C8_SummaryCountAndSchema ==
    /\ trace # <<>> =>
          Len(summarized_conversation_history) = Len(raw_conversation_history)
    /\ \A i \in 1..Len(summarized_conversation_history) :
          /\ summarized_conversation_history[i].timestamp # None
          /\ summarized_conversation_history[i].sender_type \in {"customer", "ai", "human"}
          /\ summarized_conversation_history[i].content # None
    /\ status = "ValidationError" =>
          /\ trace = <<>>
          /\ summarized_conversation_history =
                store[thread_id].values.summarized_conversation_history

\* C8 witness: the summarizer accepted a summary of a non-empty history.
C8_Witness ==
    /\ Ran(SUMMARIZE)
    /\ Len(raw_conversation_history) >= 1
    /\ Len(summarized_conversation_history) = Len(raw_conversation_history)

\* C9: no execute_sql request whose query has a mutating keyword (INSERT,
\* UPDATE, DELETE, DROP, ALTER) is handed to the tool.
C9_MutatingQueriesRejected ==
    \A k \in 1..Len(executed) : \A i \in 1..Len(executed[k]) : ~Mutating(executed[k][i])

OnTransactions(call) == call.name = "execute_sql" /\ call.args.table = "transactions"

ResolvesAccounts(call) == call.name = "execute_sql" /\ call.args = AccountsByCustomer

\* C10: a query on transactions is handed to the tool only after a query on
\* accounts filtered by customer_id was executed earlier in the invocation.
C10_AccountsBeforeTransactions ==
    \A k \in 1..Len(executed) : \A i \in 1..Len(executed[k]) :
        OnTransactions(executed[k][i]) =>
            \E h \in 1..(k - 1) : \E j \in 1..Len(executed[h]) :
                ResolvesAccounts(executed[h][j])

Named(name) ==
    \E i \in 1..Len(messages) :
        /\ messages[i].type = "ai"
        /\ \E j \in 1..Len(messages[i].tool_calls) : messages[i].tool_calls[j].name = name

\* C11: the tools handed to the graph builder and to the TOOLS node are
\* exactly list_tables and execute_sql, every tool call the TOOLS node
\* executes names one of the two, and a request naming another tool of the
\* catalog is answered with an error result without being executed.
C11_OnlyAllowListedToolsRun ==
    /\ tools = {"list_tables", "execute_sql"}
    /\ \A k \in 1..Len(executed) : \A i \in 1..Len(executed[k]) :
          executed[k][i].name \in {"list_tables", "execute_sql"}
    /\ \A i \in 1..Len(messages) :
          messages[i].type = "tool" =>
              \A h \in 1..Len(messages) : \A j \in 1..Len(messages[h].tool_calls) :
                  (messages[h].tool_calls[j].id = messages[i].tool_call_id
                   /\ messages[h].tool_calls[j].name \notin {"list_tables", "execute_sql"})
                      => messages[i].status = "error"

\* C11 witness: a batch named apply_migration next to list_tables; TOOLS ran
\* and executed list_tables only.
C11_Witness ==
    /\ Ran(TOOLS)
    /\ Named("apply_migration")
    /\ Len(Last(executed)) = 1
    /\ Last(executed)[1].name = "list_tables"

\* C12: an ANSWER turn that follows a TOOLS step starts with no call of the
\* batch still running: every request of the batch has completed, the node
\* returned one result per request in request order, and the turn reads
\* exactly one result for each request, whatever the order of completion.
C12_BatchJoin ==
    [][(trace' = Append(trace, ANSWER) /\ Ran(TOOLS)) =>
          /\ futures = <<>>
          /\ Len(batch.order) = Len(batch.calls)
          /\ batch.results = [i \in 1..Len(batch.calls) |-> batch.calls[i].id]
          /\ \A i \in 1..Len(batch.calls) :
                Cardinality({j \in 1..Len(consumed') :
                                /\ consumed'[j].type = "tool"
                                /\ consumed'[j].tool_call_id = batch.calls[i].id}) = 1]_vars

\* C12 witness: a batch of two whose second request completed first, one of
\* them with an error, and the ANSWER turn after it has run.
C12_Witness ==
    /\ Ran(ANSWER)
    /\ futures = <<>>
    /\ batch.order = <<2, 1>>
    /\ Len(batch.results) = 2
    /\ \E k \in 1..Len(executed) : \E i \in 1..Len(executed[k]) :
          executed[k][i].outcome = "raise"

Lost(old, new) == {i \in 1..Len(old) : \A j \in 1..Len(new) : new[j] # old[i]}

\* C13: every step that changes the store writes the key of the invocation's
\* thread id only, and after every node transition get(thread_id) is the
\* state as that transition left it; get is none for a thread id no
\* invocation has written; an invocation that starts on a thread id takes up
\* the state stored for it: the summary as stored and the stored turn log
\* but for the one entry its input may replace or remove.
C13_CheckpointEveryNodeBoundary ==
    [][/\ \A t \in Threads : store'[t] # store[t] => t = thread_id'
       /\ \A t \in Threads : (t # thread_id' /\ get(store, t) = <<>>) => get(store', t) = <<>>
       /\ trace' # trace /\ trace' # <<>> =>
             /\ get(store', thread_id') =
                   <<State(messages', customer_id', user_query', raw_conversation_history',
                           summarized_conversation_history')>>
             /\ store'[thread_id'].next = next_node'
       /\ (status # "running" /\ status' = "running") =>
             /\ summarized_conversation_history' =
                   Saved(thread_id').summarized_conversation_history
             /\ Cardinality(Lost(Saved(thread_id').messages, messages')) <= 1
             /\ get(store', thread_id') # <<>>
             /\ get(store', thread_id')[1].messages = messages']_vars

\* C13 witness: a second invocation on a thread id ran to END from the log the
\* first one left, while nothing was ever written for the other thread id.
C13_Witness ==
    /\ invocations = 2
    /\ status = "done"
    /\ Len(messages) >= 3
    /\ get(store, thread_id) # <<>>
    /\ get(store, thread_id)[1].messages = messages
    /\ \E t \in Threads : get(store, t) = <<>>

Other(r) == CHOOSE q \in Invocations : q # r

Wrote(r) == runs'[r] # runs[r] /\ ~runs'[r].busy

\* C14: a step of an invocation writes the key of its own thread id only,
\* and what is stored under that key is the state that invocation has just
\* computed (the last writer wins for that key); so while the other
\* invocation is on another thread id, the state stored for a thread id is
\* at every moment the state its own invocation last wrote, under every
\* interleaving.
C14_DistinctThreadsDoNotInterfere ==
    [][\A r \in Invocations :
          /\ runs'[r] # runs[r] =>
                \A t \in Threads : t # runs'[r].thread => store'[t] = store[t]
          /\ Wrote(r) =>
                /\ store'[runs'[r].thread].values = runs'[r].values
                /\ store'[runs'[r].thread].next = runs'[r].next
          /\ (runs'[r].status # "idle" /\ runs'[Other(r)].thread # runs'[r].thread) =>
                store'[runs'[r].thread].values = runs'[r].values]_vars

\* C14 witness: two invocations on different thread ids execute a node at the
\* same time, one its TOOLS node and the other its second ANSWER turn.
C14_Witness ==
    /\ runs["i1"].thread # runs["i2"].thread
    /\ runs["i1"].busy /\ runs["i1"].next = TOOLS
    /\ runs["i2"].busy /\ runs["i2"].next = ANSWER
    /\ Len(runs["i2"].values.messages) >= 3
    /\ store[runs["i1"].thread].values = runs["i1"].values
    /\ store[runs["i2"].thread].values = runs["i2"].values

\* C15: no two node executions for the same thread id are in progress at the
\* same time, also when two invocations were started with the same thread id.
C15_OneNodeAtATimePerThread ==
    \A r, q \in Invocations :
        (r # q /\ runs[r].busy /\ runs[q].busy) => runs[r].thread # runs[q].thread

RECURSIVE Flatten(_)
Flatten(batches) ==
    IF batches = <<>> THEN <<>> ELSE Head(batches) \o Flatten(Tail(batches))

\* The calls handed to the tools so far are those of Scenario 2, in order.
Issued ==
    LET ran == Flatten(executed)
    IN  /\ Len(ran) = Len(Scenario2)
        /\ \A i \in 1..Len(ran) :
              ran[i].name = Scenario2[i].name /\ ran[i].args = Scenario2[i].args

\* C16 as stated: whenever the model has issued the three calls of Scenario 2
\* and then answered, the path is SUMMARIZE, ANSWER, TOOLS, ANSWER, TOOLS,
\* ANSWER, END: two round trips.
C16_Scenario2TwoRoundTrips ==
    (status = "done" /\ Issued) =>
        trace = <<SUMMARIZE, ANSWER, TOOLS, ANSWER, TOOLS, ANSWER>>

\* C16 amended: the path has one ANSWER, TOOLS round trip per model turn that
\* issues calls and ends with the ANSWER turn that issues none; the three
\* calls issued one per turn give three round trips, and the path has two
\* round trips exactly when two of the three calls share one turn.
C16_OneRoundTripPerTurn ==
    (status = "done" /\ Issued) =>
        LET k == Len(executed)
        IN  /\ Len(trace) = 2 * k + 2
            /\ trace[1] = SUMMARIZE
            /\ \A i \in 1..k : trace[2 * i] = ANSWER /\ trace[2 * i + 1] = TOOLS
            /\ trace[2 * k + 2] = ANSWER
            /\ (\A j \in 1..k : Len(executed[j]) = 1) =>
                  trace = <<SUMMARIZE, ANSWER, TOOLS, ANSWER, TOOLS, ANSWER, TOOLS, ANSWER>>
            /\ trace = <<SUMMARIZE, ANSWER, TOOLS, ANSWER, TOOLS, ANSWER>>
                  <=> \E j \in 1..k : Len(executed[j]) = Len(Scenario2) - 1

\* C16 witness: the three calls were issued one per turn and the invocation
\* reached END after three round trips.
C16_Witness ==
    /\ status = "done"
    /\ Issued
    /\ Len(executed) = Len(Scenario2)
    /\ trace = <<SUMMARIZE, ANSWER, TOOLS, ANSWER, TOOLS, ANSWER, TOOLS, ANSWER>>

ToolsStep == Len(executed') = Len(executed) + 1

\* C17: a step of the TOOLS node leaves customer_id, user_query,
\* raw_conversation_history and summarized_conversation_history as they were,
\* in the state and in the checkpoint it writes, for every batch and every
\* outcome of its calls; only messages grows, by the results of the batch.
C17_ToolsChangesOnlyMessages ==
    [][ToolsStep =>
          /\ customer_id' = customer_id
          /\ user_query' = user_query
          /\ raw_conversation_history' = raw_conversation_history
          /\ summarized_conversation_history' = summarized_conversation_history
          /\ IsPrefix(messages, messages')
          /\ store'[thread_id].values =
                [store[thread_id].values EXCEPT !.messages = messages']]_vars

\* C17 witness: TOOLS ran a batch of two in which a tool failed, on a state
\* with a summary of a non-empty history.
C17_Witness ==
    /\ Ran(TOOLS)
    /\ Len(Last(executed)) = 2
    /\ \E i \in 1..2 : Last(executed)[i].outcome = "raise"
    /\ Len(summarized_conversation_history) >= 1
    /\ customer_id # None

Present(x) == x # None /\ x # ""

Agrees(m) ==
    \/ /\ m.sender_type = "customer"
       /\ Present(m.sender_customer_id)
       /\ m.sender_agent_id = None
       /\ m.is_internal = FALSE
    \/ /\ m.sender_type = "agent"
       /\ Present(m.sender_agent_id)
       /\ m.sender_customer_id = None

\* C18: a call of send_message whose sender fields do not agree with
\* sender_type is answered with HTTP 400 and inserts nothing; a call that
\* changes the messages table has agreeing sender fields and appends its own
\* payload; every stored message has agreeing sender fields.
C18_SenderFieldsChecked ==
    [][/\ (SendMessageRequest(request') /\ ~Agrees(request')) =>
             /\ http_response'.status = 400
             /\ messages_table' = messages_table
       /\ http_response'.status = 400 => ~Agrees(request')
       /\ messages_table' # messages_table =>
             /\ Agrees(request')
             /\ messages_table' = Append(messages_table, payload(request'))
       /\ \A i \in 1..Len(messages_table') : Agrees(messages_table'[i])]_vars

\* C18 witness: a customer message and an internal agent message are stored
\* and the latest call, a customer message naming an agent id too, got 400.
C18_Witness ==
    /\ Len(messages_table) = 2
    /\ messages_table[1].sender_type = "customer"
    /\ messages_table[2].sender_type = "agent" /\ messages_table[2].is_internal
    /\ request.sender_type = "customer"
    /\ request.sender_customer_id = "c1" /\ request.sender_agent_id = "a1"
    /\ http_response.status = 400

\* C19: create_client is invoked at most once and no two callers of
\* supabase() have received different clients, under every interleaving of
\* the handler threads.
C19_ClientCreatedOnce ==
    /\ created <= 1
    /\ \A h, g \in Handlers :
          (returned[h] # NoClient /\ returned[g] # NoClient) => returned[h] = returned[g]

=============================================================================
